---- MODULE Spec2Model ----
(***************************************************************************)
(* Verification model of the anti-forensics web application:               *)
(*   - AntiForensicsDetectorComponent (Angular): selection state, the      *)
(*     runAnalysis gate, the two HTTP requests and their handlers;         *)
(*   - SQLiteDatabaseService (Express backend): saveUser / getUserById;    *)
(*   - the directory-scan orchestrator behind /api/ads/stats.              *)
(* Strings whose characters matter (paths, file names) are sequences of    *)
(* one-character strings; optional (possibly undefined) values are         *)
(* sequences of length 0 or 1.                                             *)
(***************************************************************************)
EXTENDS Integers, Sequences, FiniteSets, TLC

VARIABLES
    analysisPath,         \* component field analysisPath (sequence of characters)
    selectedDetectors,    \* component field selectedDetectors
    selectedADSMethods,   \* component field selectedADSMethods
    analysisResults,      \* component field analysisResults
    riskAssessment,       \* component field riskAssessment (None = null)
    recommendations,      \* component field recommendations
    summary,              \* component field summary
    selectedFile,         \* component field selectedFile (None = null)
    isLoading,            \* component field isLoading
    isScanningDirectory,  \* component field isScanningDirectory
    inflight,             \* ids of the HTTP requests sent and not yet answered
    issued,               \* number of HTTP POSTs made by the component
    accepted,             \* number of runAnalysis calls that passed validation
    sent,                 \* the HTTP request made by the last handler (None: none)
    lastTarget,           \* file name or path the last HTTP request was made for
    cleared,              \* clearSelection was called and runAnalysis has not been since
    displayedFrom,        \* id of the request whose response last wrote the display (0: none)
    lastEvent,            \* what the last handler did: input, rejected, accepted,
                          \* found, notfound, other, failed, error
    sevScore,            \* argument of calculateSeverity
    sevResult,             \* its result ("unset" before the call)
    prevScore,            \* argument and result of the call before
    prevResult,
    users,                \* SQLite table users: set of rows
    lastID,               \* rowid of the last successful INSERT
    saveInput,            \* userData of the last saveUser call
    saveResult,           \* what that call resolved with (None: rejected or not called)
    getResult,            \* Some(what the last getUserById resolved with), None: not called
    scanTarget,           \* directory scan: the target and the outcome each file will have
    scanState,            \* orchestrator state
    scanIndex,            \* number of files already dealt with
    scanSummary,          \* ScanSummary accumulated so far
    scanSkipped,          \* files recorded as skipped
    scanError,            \* fatal error raised ("none": none)
    report,               \* the report file last downloaded by the browser (None: none)
    sizeBytes,            \* a byte count, argument of formatSize and FileSizePipe.transform
    formatSizeResult,     \* what formatSize returned for it (None: not called)
    transformResult,      \* what FileSizePipe.transform returned for it (None: not called)
    selectedFiles,        \* evidence upload: the files chosen in the file input
    metadata,             \* evidence upload: one FileMetadata per uploaded file
    aiSummary,            \* evidence upload: the summary of the last upload (None: null)
    alertMessage,         \* evidence upload: the last alert shown (None: none yet)
    tracking              \* whether this behaviour records lastTarget and cleared; these
                          \* two are history only, no handler reads them or tracking to
                          \* decide what the component does

uiVars == <<analysisPath, selectedDetectors, selectedADSMethods, analysisResults,
            riskAssessment, recommendations, summary, selectedFile, isLoading,
            isScanningDirectory, inflight, sent, issued, accepted,
            lastTarget, cleared, displayedFrom, lastEvent>>

sevVars == <<sevScore, sevResult, prevScore, prevResult>>

dbVars == <<users, lastID, saveInput, saveResult, getResult>>

scanVars == <<scanTarget, scanState, scanIndex, scanSummary, scanSkipped, scanError>>

downloadVars == <<report>>

sizeVars == <<sizeBytes, formatSizeResult, transformResult>>

uploadVars == <<selectedFiles, metadata, aiSummary, alertMessage>>

modeVars == <<tracking>>

vars == <<uiVars, sevVars, dbVars, scanVars, downloadVars, sizeVars, uploadVars, modeVars>>

\* what the handlers of one part leave alone
notUI == <<modeVars, sevVars, dbVars, scanVars, downloadVars, sizeVars, uploadVars>>
notSev == <<modeVars, uiVars, dbVars, scanVars, downloadVars, sizeVars, uploadVars>>
notDb == <<modeVars, uiVars, sevVars, scanVars, downloadVars, sizeVars, uploadVars>>
notScan == <<modeVars, uiVars, sevVars, dbVars, downloadVars, sizeVars, uploadVars>>
notSize == <<modeVars, uiVars, sevVars, dbVars, scanVars, downloadVars, uploadVars>>
notUpload == <<modeVars, uiVars, sevVars, dbVars, scanVars, downloadVars, sizeVars>>

-----------------------------------------------------------------------------
(* Bounds and input alphabets *)

MaxRequests == 2
MaxScore == 100
MaxUsers == 3
MaxFiles == 3

None == <<>>
Some(v) == <<v>>
IsSome(o) == Len(o) = 1
Get(o) == o[1]

\* paths the user types into the path box
PathInputs == { <<" ">>, <<" ", "d", "/">> }

\* files the user can pick in the file input
FileInputs == { [name |-> <<"x">>] }

\* detector check boxes and ADS method check boxes the user toggles
DetectorInputs == {"ads_detector", "timestomp_detector"}
MethodInputs == {"win32api"}

\* check boxes toggled when only the selection is looked at
SelectionDetectorInputs == {"ads_detector", "stego_detector", "timestomp_detector"}
SelectionMethodInputs == {"powershell", "win32api", "pattern"}

-----------------------------------------------------------------------------
(* String helpers *)

IsSpace(c) == c = " "

RECURSIVE TrimStart(_)
TrimStart(s) ==
    IF s = <<>> THEN <<>>
    ELSE IF IsSpace(Head(s)) THEN TrimStart(Tail(s)) ELSE s

RECURSIVE TrimEnd(_)
TrimEnd(s) ==
    IF s = <<>> THEN <<>>
    ELSE IF IsSpace(s[Len(s)]) THEN TrimEnd(SubSeq(s, 1, Len(s) - 1)) ELSE s

trim(s) == TrimEnd(TrimStart(s))

includes(s, x) == \E i \in 1..Len(s) : s[i] = x

endsWith(s, x) == Len(s) > 0 /\ s[Len(s)] = x

RECURSIVE filter(_, _)
filter(s, x) ==
    IF s = <<>> THEN <<>>
    ELSE IF Head(s) = x THEN filter(Tail(s), x)
         ELSE <<Head(s)>> \o filter(Tail(s), x)

-----------------------------------------------------------------------------
(* Component constants *)

availableDetectors ==
    << [value |-> "ads_detector",
        subOptions |-> <<"powershell", "win32api", "pattern">>],
       [value |-> "data_wiping_detector", subOptions |-> <<>>],
       [value |-> "encryption_detector", subOptions |-> <<>>],
       [value |-> "fake_metadata_detector", subOptions |-> <<>>],
       [value |-> "hidden_file_detector", subOptions |-> <<>>],
       [value |-> "log_tampering_detector", subOptions |-> <<>>],
       [value |-> "stego_detector", subOptions |-> <<>>],
       [value |-> "suspicious_rename_detector", subOptions |-> <<>>],
       [value |-> "timestomp_detector", subOptions |-> <<>>] >>

API_BASE_URL == "http://localhost:5000/api/ads"
DetectUrl == <<API_BASE_URL, "/detect">>
UploadUrl == <<API_BASE_URL, "/upload-and-detect">>

EmptySummary == [tmpl |-> "", target |-> <<>>, n |-> 0]

isADSSelected == includes(selectedDetectors, "ads_detector")

-----------------------------------------------------------------------------
(* Byte counts.  A byte count is written in base 1024, most significant digit    *)
(* first and without leading zero, so that 64-bit counts stay within TLC's       *)
(* integers: <<0>> is 0, <<1, 0>> is 1024, <<2, 0, 0, 0, 0>> is 2^41.            *)

\* Math.floor(Math.log(bytes) / Math.log(k)) for k = 1024, taken as the exact floor
unitIndex(bytes) == Len(bytes) - 1

\* parseFloat((bytes / Math.pow(k, i)).toFixed(2)): the leading digit and the
\* hundredths, rounded from the two digits that follow it
toFixed2(bytes) ==
    LET d2 == IF Len(bytes) >= 2 THEN bytes[2] ELSE 0
        d3 == IF Len(bytes) >= 3 THEN bytes[3] ELSE 0
        hundredths == ((d2 * 1024 + d3) * 100 + 524288) \div 1048576
    IN  IF hundredths = 100
        THEN [whole |-> bytes[1] + 1, hundredths |-> 0]
        ELSE [whole |-> bytes[1], hundredths |-> hundredths]

\* the unit is None where sizes[i] is undefined
formatSize(bytes) ==
    IF bytes = <<0>>
    THEN [number |-> [whole |-> 0, hundredths |-> 0], unit |-> Some("B")]
    ELSE LET sizes == <<"B", "KB", "MB", "GB">>
             i == unitIndex(bytes)
         IN  [number |-> toFixed2(bytes),
              unit |-> IF i + 1 \in DOMAIN sizes THEN Some(sizes[i + 1]) ELSE None]

\* FileSizePipe.transform
transform(bytes) ==
    IF bytes = <<0>>
    THEN [number |-> [whole |-> 0, hundredths |-> 0], unit |-> Some("Bytes")]
    ELSE LET sizes == <<"Bytes", "KB", "MB", "GB", "TB">>
             i == unitIndex(bytes)
         IN  [number |-> toFixed2(bytes),
              unit |-> IF i + 1 \in DOMAIN sizes THEN Some(sizes[i + 1]) ELSE None]

-----------------------------------------------------------------------------
(* Selection handlers *)

onFileSelected(files) ==
    /\ IF Len(files) > 0
       THEN /\ selectedFile' = Some(files[1])
            /\ analysisPath' = files[1].name
       ELSE /\ selectedFile' = None
            /\ UNCHANGED analysisPath
    /\ lastEvent' = "input"
    /\ sent' = None
    /\ UNCHANGED <<selectedDetectors, selectedADSMethods, analysisResults,
                   riskAssessment, recommendations, summary, isLoading,
                   isScanningDirectory, inflight, issued, accepted, lastTarget,
                   cleared, displayedFrom>>
    /\ UNCHANGED notUI

\* two-way binding of the path text box
setAnalysisPath(p) ==
    /\ analysisPath' = p
    /\ lastEvent' = "input"
    /\ sent' = None
    /\ UNCHANGED <<selectedDetectors, selectedADSMethods, analysisResults,
                   riskAssessment, recommendations, summary, selectedFile, isLoading,
                   isScanningDirectory, inflight, issued, accepted, lastTarget,
                   cleared, displayedFrom>>
    /\ UNCHANGED notUI

\* deselecting the ADS detector keeps the ADS methods
onDetectorChange_keepsMethods(detectorValue, isChecked) ==
    /\ IF isChecked
       THEN /\ selectedDetectors' =
                   IF ~includes(selectedDetectors, detectorValue)
                   THEN Append(selectedDetectors, detectorValue)
                   ELSE selectedDetectors
            /\ UNCHANGED selectedADSMethods
       ELSE /\ selectedDetectors' = filter(selectedDetectors, detectorValue)
            /\ UNCHANGED selectedADSMethods
    /\ lastEvent' = "input"
    /\ sent' = None
    /\ UNCHANGED <<analysisPath, analysisResults, riskAssessment, recommendations,
                   summary, selectedFile, isLoading, isScanningDirectory, inflight,
                   issued, accepted, lastTarget, cleared, displayedFrom>>
    /\ UNCHANGED notUI

onDetectorChange(detectorValue, isChecked) ==
    /\ IF isChecked
       THEN /\ selectedDetectors' =
                   IF ~includes(selectedDetectors, detectorValue)
                   THEN Append(selectedDetectors, detectorValue)
                   ELSE selectedDetectors
            /\ UNCHANGED selectedADSMethods
       ELSE /\ selectedDetectors' = filter(selectedDetectors, detectorValue)
            /\ selectedADSMethods' =
                   IF detectorValue = "ads_detector" THEN <<>> ELSE selectedADSMethods
    /\ lastEvent' = "input"
    /\ sent' = None
    /\ UNCHANGED <<analysisPath, analysisResults, riskAssessment, recommendations,
                   summary, selectedFile, isLoading, isScanningDirectory, inflight,
                   issued, accepted, lastTarget, cleared, displayedFrom>>
    /\ UNCHANGED notUI

\* a checked method is pushed without looking whether it is already selected
onADSMethodChange_push(methodValue, isChecked) ==
    /\ selectedADSMethods' =
          IF isChecked
          THEN Append(selectedADSMethods, methodValue)
          ELSE filter(selectedADSMethods, methodValue)
    /\ lastEvent' = "input"
    /\ sent' = None
    /\ UNCHANGED <<analysisPath, selectedDetectors, analysisResults, riskAssessment,
                   recommendations, summary, selectedFile, isLoading,
                   isScanningDirectory, inflight, issued, accepted, lastTarget,
                   cleared, displayedFrom>>
    /\ UNCHANGED notUI

onADSMethodChange(methodValue, isChecked) ==
    /\ selectedADSMethods' =
          IF isChecked
          THEN IF ~includes(selectedADSMethods, methodValue)
               THEN Append(selectedADSMethods, methodValue)
               ELSE selectedADSMethods
          ELSE filter(selectedADSMethods, methodValue)
    /\ lastEvent' = "input"
    /\ sent' = None
    /\ UNCHANGED <<analysisPath, selectedDetectors, analysisResults, riskAssessment,
                   recommendations, summary, selectedFile, isLoading,
                   isScanningDirectory, inflight, issued, accepted, lastTarget,
                   cleared, displayedFrom>>
    /\ UNCHANGED notUI

clearSelection ==
    /\ selectedDetectors' = <<>>
    /\ selectedADSMethods' = <<"powershell">>
    /\ analysisResults' = <<>>
    /\ riskAssessment' = None
    /\ recommendations' = <<>>
    /\ summary' = EmptySummary
    /\ analysisPath' = <<>>
    /\ selectedFile' = None
    /\ isScanningDirectory' = FALSE
    /\ cleared' = tracking
    /\ displayedFrom' = 0
    /\ lastEvent' = "input"
    /\ sent' = None
    /\ UNCHANGED <<isLoading, inflight, issued, accepted, lastTarget>>
    /\ UNCHANGED notUI

adsDetector ==
    availableDetectors[CHOOSE i \in 1..Len(availableDetectors) :
                          /\ availableDetectors[i].value = "ads_detector"
                          /\ \A j \in 1..(i - 1) :
                                availableDetectors[j].value # "ads_detector"]

selectAllDetectors(isChecked) ==
    /\ IF isChecked
       THEN /\ selectedDetectors' =
                   [i \in 1..Len(availableDetectors) |-> availableDetectors[i].value]
            /\ selectedADSMethods' =
                   IF includes(selectedDetectors', "ads_detector")
                   THEN <<"powershell">>
                   ELSE selectedADSMethods
       ELSE /\ selectedDetectors' = <<>>
            /\ selectedADSMethods' = <<>>
    /\ lastEvent' = "input"
    /\ sent' = None
    /\ UNCHANGED <<analysisPath, analysisResults, riskAssessment, recommendations,
                   summary, selectedFile, isLoading, isScanningDirectory, inflight,
                   issued, accepted, lastTarget, cleared, displayedFrom>>
    /\ UNCHANGED notUI

\* the sub-options are added to the methods already selected
selectAllADSMethods_append(isChecked) ==
    /\ selectedADSMethods' =
          IF isChecked THEN selectedADSMethods \o adsDetector.subOptions ELSE <<>>
    /\ lastEvent' = "input"
    /\ sent' = None
    /\ UNCHANGED <<analysisPath, selectedDetectors, analysisResults, riskAssessment,
                   recommendations, summary, selectedFile, isLoading,
                   isScanningDirectory, inflight, issued, accepted, lastTarget,
                   cleared, displayedFrom>>
    /\ UNCHANGED notUI

selectAllADSMethods(isChecked) ==
    /\ selectedADSMethods' =
          IF isChecked
          THEN [i \in 1..Len(adsDetector.subOptions) |-> adsDetector.subOptions[i]]
          ELSE <<>>
    /\ lastEvent' = "input"
    /\ sent' = None
    /\ UNCHANGED <<analysisPath, selectedDetectors, analysisResults, riskAssessment,
                   recommendations, summary, selectedFile, isLoading,
                   isScanningDirectory, inflight, issued, accepted, lastTarget,
                   cleared, displayedFrom>>
    /\ UNCHANGED notUI

isAllSelected ==
    /\ Len(selectedDetectors) = Len(availableDetectors)
    /\ Len(availableDetectors) > 0

isAllADSMethodsSelected ==
    Len(selectedADSMethods) = Len(adsDetector.subOptions)

-----------------------------------------------------------------------------

(* Severity buckets *)

CriticalThreshold == 80
HighThreshold == 60
MediumThreshold == 30

\* the thresholds compared with > instead of >=
calculateSeverity_strict(riskScore) ==
    IF riskScore > CriticalThreshold THEN "Critical"
    ELSE IF riskScore > HighThreshold THEN "High"
    ELSE IF riskScore > MediumThreshold THEN "Medium"
    ELSE "Low"

calculateSeverity(riskScore) ==
    IF riskScore >= CriticalThreshold THEN "Critical"
    ELSE IF riskScore >= HighThreshold THEN "High"
    ELSE IF riskScore >= MediumThreshold THEN "Medium"
    ELSE "Low"

-----------------------------------------------------------------------------
(* JSON encoding of a string array, as a sequence of tokens *)

RECURSIVE JSONelements(_)
JSONelements(arr) ==
    IF arr = <<>> THEN <<>>
    ELSE IF Len(arr) = 1 THEN <<"\"", Head(arr), "\"">>
    ELSE <<"\"", Head(arr), "\"", ",">> \o JSONelements(Tail(arr))

JSONstringify(arr) == <<"[">> \o JSONelements(arr) \o <<"]">>

-----------------------------------------------------------------------------
(* Server answers *)

Stream1 == [name |-> ":secret.txt", size_bytes |-> <<2, 0>>, stream_type |-> "text",
            risk_score |-> 85, content_preview |-> Some("top secret")]
Stream2 == [name |-> ":payload.exe", size_bytes |-> <<0>>, stream_type |-> "binary",
            risk_score |-> 45, content_preview |-> None]

Risk1 == [risk_level |-> "critical", score |-> 85, description |-> "Critical risk"]

\* data of an answer: what the handlers read from it
Data(found, streams, risk, recs, summ, total) ==
    [ads_found |-> found, streams |-> streams, risk_assessment |-> risk,
     recommendations |-> recs, summary |-> summ, total_streams |-> total,
     error |-> None]

Recs1 == <<"Quarantine the file">>

NotFoundData ==
    { Data(Some(FALSE), Some(<<>>), None, r, None, Some(0)) :
        r \in {None, Some(<<>>)} }

FoundData ==
    { Data(Some(TRUE), None, None, None, None, None),
      Data(Some(TRUE), Some(<<>>), Some(Risk1), Some(Recs1), None, Some(3)),
      Data(Some(TRUE), Some(<<Stream1, Stream2>>), None, Some(<<>>), None, None),
      Data(Some(TRUE), Some(<<Stream1, Stream2>>), Some(Risk1), Some(Recs1),
           Some("ADS detected"), Some(3)) }

OtherData == { Data(None, None, None, None, None, None) }

FailedData ==
    { [Data(Some(TRUE), Some(<<Stream1, Stream2>>), Some(Risk1), Some(Recs1),
            Some("ADS detected"), Some(2)) EXCEPT !.error = Some("scan aborted")] }

Body(success, data, detail) ==
    [success |-> success, data |-> data, detail |-> detail, error |-> None,
     message |-> None]

\* bodies of 2xx answers
Responses ==
    { Body(TRUE, Some(d), None) : d \in NotFoundData \cup FoundData \cup OtherData }
    \cup { Body(TRUE, None, None) }
    \cup { Body(FALSE, None, Some("Path not found")) }
    \cup { Body(FALSE, Some(d), None) : d \in FailedData }

\* HttpErrorResponse values
ErrorResponses ==
    [ status : {0, 400, 404, 500, 503}, message : {"Http failure response"} ]

-----------------------------------------------------------------------------
(* HTTP *)

\* this.http.post(url, body).subscribe(...): one request goes out
httpPost(url, body) ==
    /\ inflight' = inflight \cup {issued + 1}
    /\ sent' = Some([id |-> issued + 1, url |-> url, body |-> body])
    /\ issued' = issued + 1
    /\ lastTarget' = IF ~tracking THEN lastTarget
                     ELSE IF selectedFile # None THEN Get(selectedFile).name
                     ELSE analysisPath

\* the selected detectors are sent even when the ADS detector is selected
analyzeFile_detectorsOnly ==
    LET file == Get(selectedFile)
        formData ==
            << [name |-> "file", value |-> file, filename |-> file.name],
               [name |-> "detectors", value |-> JSONstringify(selectedDetectors)] >>
    IN  /\ httpPost(UploadUrl, formData)
        /\ UNCHANGED isScanningDirectory

analyzeFile ==
    LET file == Get(selectedFile)
        formData ==
            << [name |-> "file", value |-> file, filename |-> file.name],
               [name |-> "detectors",
                value |-> IF isADSSelected
                          THEN JSONstringify(selectedADSMethods)
                          ELSE JSONstringify(selectedDetectors)] >>
    IN  /\ httpPost(UploadUrl, formData)
        /\ UNCHANGED isScanningDirectory

\* only a trailing separator makes the path a directory
analyzePath_endsWithOnly ==
    LET isDirectory == \/ endsWith(analysisPath, "\\")
                       \/ endsWith(analysisPath, "/")
        payload ==
            IF isADSSelected
            THEN [file_path |-> trim(analysisPath),
                  selected_detectors |-> selectedADSMethods,
                  use_win32api |-> includes(selectedADSMethods, "win32api"),
                  scan_directory |-> isDirectory]
            ELSE [file_path |-> trim(analysisPath),
                  selected_detectors |-> selectedDetectors,
                  scan_directory |-> isDirectory]
    IN  /\ isScanningDirectory' = isDirectory
        /\ httpPost(DetectUrl, payload)

analyzePath ==
    LET isDirectory == \/ includes(analysisPath, "\\")
                       \/ includes(analysisPath, "/")
                       \/ endsWith(analysisPath, "\\")
                       \/ endsWith(analysisPath, "/")
        payload ==
            IF isADSSelected
            THEN [file_path |-> trim(analysisPath),
                  selected_detectors |-> selectedADSMethods,
                  use_win32api |-> includes(selectedADSMethods, "win32api"),
                  scan_directory |-> isDirectory]
            ELSE [file_path |-> trim(analysisPath),
                  selected_detectors |-> selectedDetectors,
                  scan_directory |-> isDirectory]
    IN  /\ isScanningDirectory' = isDirectory
        /\ httpPost(DetectUrl, payload)

\* the results are cleared before the inputs are validated
runAnalysis_clearsFirst ==
    /\ IF trim(analysisPath) = <<>> /\ selectedFile = None
       THEN /\ lastEvent' = "rejected"
            /\ analysisResults' = <<>>
            /\ UNCHANGED <<analysisPath, selectedDetectors, selectedADSMethods,
                           riskAssessment, recommendations, summary,
                           selectedFile, isLoading, isScanningDirectory, inflight,
                           issued, accepted, lastTarget, displayedFrom>>
            /\ sent' = None
       ELSE IF Len(selectedDetectors) = 0
       THEN /\ lastEvent' = "rejected"
            /\ analysisResults' = <<>>
            /\ UNCHANGED <<analysisPath, selectedDetectors, selectedADSMethods,
                           riskAssessment, recommendations, summary,
                           selectedFile, isLoading, isScanningDirectory, inflight,
                           issued, accepted, lastTarget, displayedFrom>>
            /\ sent' = None
       ELSE IF isADSSelected /\ Len(selectedADSMethods) = 0
       THEN /\ lastEvent' = "rejected"
            /\ analysisResults' = <<>>
            /\ UNCHANGED <<analysisPath, selectedDetectors, selectedADSMethods,
                           riskAssessment, recommendations, summary,
                           selectedFile, isLoading, isScanningDirectory, inflight,
                           issued, accepted, lastTarget, displayedFrom>>
            /\ sent' = None
       ELSE /\ issued < MaxRequests
            /\ analysisResults' = <<>>
            /\ riskAssessment' = None
            /\ recommendations' = <<>>
            /\ summary' = EmptySummary
            /\ isLoading' = TRUE
            /\ accepted' = accepted + 1
            /\ displayedFrom' = 0
            /\ lastEvent' = "accepted"
            /\ IF selectedFile # None THEN analyzeFile ELSE analyzePath
            /\ UNCHANGED <<analysisPath, selectedDetectors, selectedADSMethods,
                           selectedFile>>
    /\ cleared' = FALSE
    /\ UNCHANGED notUI

runAnalysis ==
    /\ IF trim(analysisPath) = <<>> /\ selectedFile = None
       THEN /\ lastEvent' = "rejected"
            /\ UNCHANGED <<analysisPath, selectedDetectors, selectedADSMethods,
                           analysisResults, riskAssessment, recommendations, summary,
                           selectedFile, isLoading, isScanningDirectory, inflight,
                           issued, accepted, lastTarget, displayedFrom>>
            /\ sent' = None
       ELSE IF Len(selectedDetectors) = 0
       THEN /\ lastEvent' = "rejected"
            /\ UNCHANGED <<analysisPath, selectedDetectors, selectedADSMethods,
                           analysisResults, riskAssessment, recommendations, summary,
                           selectedFile, isLoading, isScanningDirectory, inflight,
                           issued, accepted, lastTarget, displayedFrom>>
            /\ sent' = None
       ELSE IF isADSSelected /\ Len(selectedADSMethods) = 0
       THEN /\ lastEvent' = "rejected"
            /\ UNCHANGED <<analysisPath, selectedDetectors, selectedADSMethods,
                           analysisResults, riskAssessment, recommendations, summary,
                           selectedFile, isLoading, isScanningDirectory, inflight,
                           issued, accepted, lastTarget, displayedFrom>>
            /\ sent' = None
       ELSE /\ issued < MaxRequests
            /\ analysisResults' = <<>>
            /\ riskAssessment' = None
            /\ recommendations' = <<>>
            /\ summary' = EmptySummary
            /\ isLoading' = TRUE
            /\ accepted' = accepted + 1
            /\ displayedFrom' = 0
            /\ lastEvent' = "accepted"
            /\ IF selectedFile # None THEN analyzeFile ELSE analyzePath
            /\ UNCHANGED <<analysisPath, selectedDetectors, selectedADSMethods,
                           selectedFile>>
    /\ cleared' = FALSE
    /\ UNCHANGED notUI

-----------------------------------------------------------------------------
(* Response handlers *)

targetName == IF selectedFile # None THEN Get(selectedFile).name ELSE analysisPath

toAnalysisResult(stream) ==
    [indicator |-> stream.name,
     description |-> [stream_type |-> stream.stream_type,
                      size |-> formatSize(stream.size_bytes)],
     severity |-> calculateSeverity(stream.risk_score),
     confidence |-> stream.risk_score,
     details |-> [name |-> stream.name, type |-> stream.stream_type,
                  size |-> formatSize(stream.size_bytes),
                  risk_score |-> stream.risk_score],
     content_preview |-> stream.content_preview]

\* the results come out in reverse order
mapStreams_reversed(streams) ==
    [i \in 1..Len(streams) |-> toAnalysisResult(streams[Len(streams) + 1 - i])]

mapStreams(streams) == [i \in 1..Len(streams) |-> toAnalysisResult(streams[i])]

handleADSResponse(id, data) ==
    IF ~Get(data.ads_found)
    THEN /\ summary' = [tmpl |-> "No ADS streams found in ${targetName}",
                        target |-> targetName, n |-> 0]
         /\ recommendations' = IF IsSome(data.recommendations)
                               THEN Get(data.recommendations)
                               ELSE <<"No action required">>
         /\ displayedFrom' = id
         /\ lastEvent' = "notfound"
         /\ UNCHANGED <<analysisResults, riskAssessment>>
    ELSE /\ analysisResults' =
                IF IsSome(data.streams) /\ Len(Get(data.streams)) > 0
                THEN mapStreams(Get(data.streams))
                ELSE analysisResults
         /\ riskAssessment' = data.risk_assessment
         /\ recommendations' = IF IsSome(data.recommendations)
                               THEN Get(data.recommendations)
                               ELSE <<>>
         /\ summary' =
                IF IsSome(data.summary) /\ Get(data.summary) # ""
                THEN [tmpl |-> Get(data.summary), target |-> <<>>, n |-> 0]
                ELSE [tmpl |-> "Found ${n} ADS streams", target |-> <<>>,
                      n |-> IF IsSome(data.total_streams)
                            THEN Get(data.total_streams) ELSE 0]
         /\ displayedFrom' = id
         /\ lastEvent' = "found"

handleOtherDetectorResponse(data) ==
    /\ lastEvent' = "other"
    /\ UNCHANGED <<analysisResults, riskAssessment, recommendations, summary,
                   displayedFrom>>

handleApiResponse(id, response) ==
    /\ isLoading' = FALSE
    /\ IF response.success /\ IsSome(response.data)
       THEN IF IsSome(Get(response.data).ads_found)
            THEN handleADSResponse(id, Get(response.data))
            ELSE handleOtherDetectorResponse(Get(response.data))
       ELSE /\ lastEvent' = "failed"
            /\ UNCHANGED <<analysisResults, riskAssessment, recommendations, summary,
                           displayedFrom>>

\* the error handler forgets to reset isLoading
handleApiError_keepsLoading(error) ==
    /\ isLoading' = isLoading
    /\ lastEvent' = "error"
    /\ UNCHANGED <<analysisResults, riskAssessment, recommendations, summary,
                   displayedFrom>>

handleApiError(error) ==
    /\ isLoading' = FALSE
    /\ lastEvent' = "error"
    /\ UNCHANGED <<analysisResults, riskAssessment, recommendations, summary,
                   displayedFrom>>

\* the subscription of request id receives its answer
subscribeNext(id, response) ==
    /\ id \in inflight
    /\ inflight' = inflight \ {id}
    /\ sent' = None
    /\ handleApiResponse(id, response)
    /\ UNCHANGED <<analysisPath, selectedDetectors, selectedADSMethods, selectedFile,
                   isScanningDirectory, issued, accepted, lastTarget, cleared>>
    /\ UNCHANGED notUI

\* the error callback sends the request again
subscribeError_retry(id, error) ==
    /\ id \in inflight
    /\ inflight' = (inflight \ {id}) \cup {issued + 1}
    /\ issued' = issued + 1
    /\ sent' = None
    /\ lastEvent' = "error"
    /\ UNCHANGED <<analysisPath, selectedDetectors, selectedADSMethods, selectedFile,
                   isScanningDirectory, accepted, lastTarget, cleared,
                   analysisResults, riskAssessment,
                   recommendations, summary, displayedFrom, isLoading>>
    /\ UNCHANGED notUI

subscribeError(id, error) ==
    /\ id \in inflight
    /\ inflight' = inflight \ {id}
    /\ sent' = None
    /\ handleApiError(error)
    /\ UNCHANGED <<analysisPath, selectedDetectors, selectedADSMethods, selectedFile,
                   isScanningDirectory, issued, accepted, lastTarget, cleared>>
    /\ UNCHANGED notUI

-----------------------------------------------------------------------------
(* Report *)

\* the text of the report, section by section; an optional section is None when
\* the code leaves it out
createReport ==
    [target |-> IF selectedFile # None THEN Get(selectedFile).name ELSE analysisPath,
     detectors |-> selectedDetectors,
     methods |-> IF isADSSelected THEN Some(selectedADSMethods) ELSE None,
     scanType |-> IF isScanningDirectory THEN "Directory Scan" ELSE "File Scan",
     summary |-> IF summary.tmpl # "" THEN Some(summary) ELSE None,
     riskAssessment |-> riskAssessment,
     recommendations |-> IF Len(recommendations) > 0 THEN Some(recommendations) ELSE None,
     total |-> Len(analysisResults),
     findings |->
        [index \in 1..Len(analysisResults) |->
            [number |-> index,
             indicator |-> analysisResults[index].indicator,
             severity |-> analysisResults[index].severity,
             confidence |-> analysisResults[index].confidence,
             description |-> analysisResults[index].description,
             content_preview |-> analysisResults[index].content_preview,
             details |-> analysisResults[index].details]]]

\* the report is downloaded as it is
downloadReport(reportContent) == report' = Some(reportContent)

\* a report is made whether or not there are results
generateReport_noCheck ==
    /\ downloadReport(createReport)
    /\ lastEvent' = "report"
    /\ sent' = None
    /\ UNCHANGED <<analysisPath, selectedDetectors, selectedADSMethods, analysisResults,
                   riskAssessment, recommendations, summary, selectedFile, isLoading,
                   isScanningDirectory, inflight, issued, accepted, lastTarget,
                   cleared, displayedFrom>>
    /\ UNCHANGED <<modeVars, sevVars, dbVars, scanVars, sizeVars, uploadVars>>

generateReport ==
    /\ IF Len(analysisResults) = 0
       THEN /\ lastEvent' = "noreport"
            /\ UNCHANGED report
       ELSE /\ downloadReport(createReport)
            /\ lastEvent' = "report"
    /\ sent' = None
    /\ UNCHANGED <<analysisPath, selectedDetectors, selectedADSMethods, analysisResults,
                   riskAssessment, recommendations, summary, selectedFile, isLoading,
                   isScanningDirectory, inflight, issued, accepted, lastTarget,
                   cleared, displayedFrom>>
    /\ UNCHANGED <<modeVars, sevVars, dbVars, scanVars, sizeVars, uploadVars>>

-----------------------------------------------------------------------------

InitUI ==
    /\ analysisPath = <<>>
    /\ selectedDetectors = <<>>
    /\ selectedADSMethods = <<"powershell">>
    /\ analysisResults = <<>>
    /\ riskAssessment = None
    /\ recommendations = <<>>
    /\ summary = EmptySummary
    /\ selectedFile = None
    /\ isLoading = FALSE
    /\ isScanningDirectory = FALSE
    /\ inflight = {}
    /\ sent = None
    /\ issued = 0
    /\ accepted = 0
    /\ displayedFrom = 0
    /\ lastTarget = <<>>
    /\ cleared = FALSE
    /\ lastEvent = "input"

InitSev ==
    /\ sevScore = 0
    /\ sevResult = "unset"
    /\ prevScore = 0
    /\ prevResult = "unset"

InitDb ==
    /\ users = {}
    /\ lastID = 0
    /\ saveInput = None
    /\ saveResult = None
    /\ getResult = None

InitScan ==
    /\ scanTarget = [status |-> "ok", files |-> <<>>]
    /\ scanState = "Pending"
    /\ scanIndex = 0
    /\ scanSummary = [total_files_scanned |-> 0, files_with_ads |-> 0,
                      total_ads_streams |-> 0]
    /\ scanSkipped = {}
    /\ scanError = "none"

InitDownload == report = None

InitSize ==
    /\ sizeBytes = <<0>>
    /\ formatSizeResult = None
    /\ transformResult = None

InitUpload ==
    /\ selectedFiles = <<>>
    /\ metadata = <<>>
    /\ aiSummary = None
    /\ alertMessage = None

InitMode == tracking = FALSE

Init ==
    /\ InitUI /\ InitSev /\ InitDb /\ InitScan /\ InitDownload /\ InitSize
    /\ InitUpload /\ InitMode

Next ==
    \/ \E files \in {<<>>} \cup {<<f>> : f \in FileInputs} : onFileSelected(files)
    \/ \E p \in PathInputs : setAnalysisPath(p)
    \/ \E d \in DetectorInputs, c \in BOOLEAN : onDetectorChange(d, c)
    \/ \E m \in MethodInputs, c \in BOOLEAN : onADSMethodChange(m, c)
    \/ clearSelection
    \/ runAnalysis
    \/ \E id \in 1..MaxRequests, r \in Responses : subscribeNext(id, r)
    \/ \E id \in 1..MaxRequests, e \in ErrorResponses : subscribeError(id, e)

Spec == Init /\ [][Next]_vars

\* the same component, with the target of the last request and the calls of
\* clearSelection recorded
InitOverlap ==
    /\ InitUI /\ InitSev /\ InitDb /\ InitScan /\ InitDownload /\ InitSize
    /\ InitUpload
    /\ tracking = TRUE

SpecOverlap == InitOverlap /\ [][Next]_vars

-----------------------------------------------------------------------------
(* The selection on its own: selectedDetectors and selectedADSMethods are written *)
(* by these five handlers only.                                                   *)

NextSelection ==
    \/ \E d \in SelectionDetectorInputs, c \in BOOLEAN : onDetectorChange(d, c)
    \/ \E m \in SelectionMethodInputs, c \in BOOLEAN : onADSMethodChange(m, c)
    \/ \E c \in BOOLEAN : selectAllDetectors(c)
    \/ \E c \in BOOLEAN : selectAllADSMethods(c)
    \/ clearSelection

SpecSelection == Init /\ [][NextSelection]_vars

-----------------------------------------------------------------------------
(* Reports of ADS analyses of one path *)

NextReport ==
    \/ setAnalysisPath(<<" ", "d", "/">>)
    \/ onDetectorChange("ads_detector", TRUE)
    \/ clearSelection
    \/ runAnalysis
    \/ \E id \in 1..MaxRequests, r \in Responses : subscribeNext(id, r)
    \/ generateReport

SpecReport == Init /\ [][NextReport]_vars

-----------------------------------------------------------------------------
(* Analyses of typed paths, with and without separators *)

DirectoryPathInputs ==
    { <<"d">>, <<"d", "/">>, <<"d", "\\">>, <<"d", "/", "f">>, <<"d", "\\", "f">> }

NextPath ==
    \/ \E p \in DirectoryPathInputs : setAnalysisPath(p)
    \/ \E d \in DetectorInputs : onDetectorChange(d, TRUE)
    \/ runAnalysis
    \/ \E id \in 1..MaxRequests, e \in ErrorResponses : subscribeError(id, e)

SpecPath == Init /\ [][NextPath]_vars

-----------------------------------------------------------------------------
(* formatSize and FileSizePipe.transform applied to 64-bit byte counts *)

U64Digits == 7

ByteDigits == {0, 1, 1023}

\* leading digits: a count of seven digits is below 2^64 when it starts below 16
TopDigits(len) == IF len = U64Digits THEN {1, 15} ELSE {1, 1023}

ByteCounts ==
    {<<0>>} \cup
    UNION { { [i \in 1..len |-> IF i = 1 THEN t ELSE rest[i - 1]] :
                t \in TopDigits(len), rest \in [1..(len - 1) -> ByteDigits] } :
            len \in 1..U64Digits }

callFormatSize ==
    /\ formatSizeResult' = Some(formatSize(sizeBytes))
    /\ UNCHANGED <<sizeBytes, transformResult>>
    /\ UNCHANGED notSize

callTransform ==
    /\ transformResult' = Some(transform(sizeBytes))
    /\ UNCHANGED <<sizeBytes, formatSizeResult>>
    /\ UNCHANGED notSize

InitSizes ==
    /\ InitUI /\ InitSev /\ InitDb /\ InitScan /\ InitDownload /\ InitUpload /\ InitMode
    /\ sizeBytes \in ByteCounts
    /\ formatSizeResult = None
    /\ transformResult = None

NextSize ==
    \/ callFormatSize
    \/ callTransform

SpecSize == InitSizes /\ [][NextSize]_vars

-----------------------------------------------------------------------------
(* Evidence upload: uploadFiles and the dummy hash of a file name *)

MaxNameLen == 5

\* UTF-16 code units of ' ( < _ and U+0914; the name made of U+0914 ' < ( _
\* has the rolling hash -2^31, its prefixes and permutations wrap on both sides
NameChars == {39, 40, 60, 95, 2324}

\* file names as sequences of code units, the empty name included
FileNames == UNION { [1..n -> NameChars] : n \in 0..MaxNameLen }

\* what the file input hands over: two files, the second one with a different
\* type, size and date and either the same name as the first or the name "a"
FileLists ==
    { << [name |-> n, type |-> "", size |-> 700, lastModified |-> 0],
         [name |-> IF same THEN n ELSE <<97>>, type |-> t, size |-> 1400,
          lastModified |-> 1] >> :
      n \in FileNames, same \in BOOLEAN, t \in {"", "text/plain"} }

\* a 32-bit integer as its two 16-bit halves (two's complement)
Int32(hi, lo) == [hi |-> hi, lo |-> lo]

\* hash << 5
shl5(w) == Int32((w.hi * 32 + (w.lo * 32) \div 65536) % 65536, (w.lo * 32) % 65536)

\* a - b, kept to 32 bits
sub32(a, b) ==
    LET borrow == IF a.lo < b.lo THEN 1 ELSE 0
    IN  Int32((a.hi - b.hi - borrow) % 65536, (a.lo - b.lo) % 65536)

\* a + char for a code unit char, kept to 32 bits
add32(a, char) ==
    Int32((a.hi + (a.lo + char) \div 65536) % 65536, (a.lo + char) % 65536)

\* Math.abs of a 32-bit integer: the magnitude, 2^31 for -2^31
abs(w) ==
    IF w.hi >= 32768 THEN sub32(Int32(0, 0), w) ELSE w

HexDigits == <<"0", "1", "2", "3", "4", "5", "6", "7", "8", "9",
               "a", "b", "c", "d", "e", "f">>

RECURSIVE dropLeadingZeros(_)
dropLeadingZeros(s) ==
    IF Len(s) > 1 /\ s[1] = "0" THEN dropLeadingZeros(Tail(s)) ELSE s

\* Number.prototype.toString(16) of a magnitude of at most 32 bits
toString16(w) ==
    LET nibbles(h) == << HexDigits[(h \div 4096) + 1], HexDigits[((h \div 256) % 16) + 1],
                         HexDigits[((h \div 16) % 16) + 1], HexDigits[(h % 16) + 1] >>
    IN  dropLeadingZeros(nibbles(w.hi) \o nibbles(w.lo))

\* String.prototype.substring(0, end)
substring0(s, end) == SubSeq(s, 1, IF Len(s) < end THEN Len(s) ELSE end)

\* String.prototype.padStart(len, pad) for a pad of one character
padStart(s, len, pad) ==
    IF Len(s) >= len THEN s ELSE [i \in 1..(len - Len(s)) |-> pad] \o s

RECURSIVE rollingHash(_, _, _)
\* the loop of generateDummyHash from position i (0-based) on
rollingHash(fileName, i, hash) ==
    IF i < Len(fileName)
    THEN LET char == fileName[i + 1]
         IN  rollingHash(fileName, i + 1, add32(sub32(shl5(hash), hash), char))
    ELSE hash

\* generateDummyHash without the padding
generateDummyHash_noPad(fileName) ==
    substring0(toString16(abs(rollingHash(fileName, 0, Int32(0, 0)))), 10)

generateDummyHash(fileName) ==
    padStart(substring0(toString16(abs(rollingHash(fileName, 0, Int32(0, 0)))), 10),
             10, "0")

\* a byte count below 2^20 as base-1024 digits
bytesOf(n) == IF n < 1024 THEN <<n>> ELSE <<n \div 1024, n % 1024>>

RECURSIVE sumSizes(_)
sumSizes(files) ==
    IF files = <<>> THEN 0 ELSE files[1].size + sumSizes(Tail(files))

RECURSIVE typesOf(_)
\* Array.from(new Set(files.map(f => f.type || 'unknown'))) read back to front:
\* a type stays at its first position
typesOf(files) ==
    IF files = <<>> THEN <<>>
    ELSE LET front == typesOf(SubSeq(files, 1, Len(files) - 1))
             last == files[Len(files)].type
             t == IF last = "" THEN "unknown" ELSE last
         IN  IF \E i \in 1..Len(front) : front[i] = t THEN front ELSE Append(front, t)

uploadFiles ==
    /\ IF Len(selectedFiles) = 0
       THEN /\ alertMessage' = Some([text |-> "Please select files to upload.",
                                     arg |-> <<>>])
            /\ UNCHANGED <<selectedFiles, metadata, aiSummary>>
       ELSE /\ metadata' = metadata \o
                  [i \in 1..Len(selectedFiles) |->
                      LET file == selectedFiles[i]
                      IN  [fileName |-> file.name,
                           fileType |-> IF file.type = "" THEN "unknown" ELSE file.type,
                           size |-> file.size,
                           lastModified |-> file.lastModified,
                           hash |-> generateDummyHash(file.name)]]
            /\ aiSummary' = Some([count |-> Len(selectedFiles),
                                  total |-> transform(bytesOf(sumSizes(selectedFiles))),
                                  types |-> typesOf(selectedFiles)])
            /\ alertMessage' = Some([text |-> "Uploaded files and extracted metadata.",
                                     arg |-> <<Len(selectedFiles)>>])
            /\ selectedFiles' = <<>>
    /\ UNCHANGED notUpload

\* item is the entry at position i of metadata; entries are told apart by
\* identity, so only that one goes
deleteMetadata(i) ==
    /\ i \in 1..Len(metadata)
    /\ metadata' = [j \in 1..(Len(metadata) - 1) |->
                       IF j < i THEN metadata[j] ELSE metadata[j + 1]]
    /\ alertMessage' = Some([text |-> "Deleted metadata for", arg |-> metadata[i].fileName])
    /\ UNCHANGED <<selectedFiles, aiSummary>>
    /\ UNCHANGED notUpload

\* the component after the user picked files
InitUploads ==
    /\ InitUI /\ InitSev /\ InitDb /\ InitScan /\ InitDownload /\ InitSize /\ InitMode
    /\ selectedFiles \in FileLists
    /\ metadata = <<>>
    /\ aiSummary = None
    /\ alertMessage = None

NextUpload ==
    \/ uploadFiles
    \/ \E i \in 1..Len(metadata) : deleteMetadata(i)

SpecUpload == InitUploads /\ [][NextUpload]_vars

-----------------------------------------------------------------------------
(* calculateSeverity applied to every score *)

Scores == 0..MaxScore

classify ==
    /\ sevResult = "unset"
    /\ sevResult' = calculateSeverity(sevScore)
    /\ UNCHANGED <<sevScore, prevScore, prevResult>>
    /\ UNCHANGED notSev

nextScore(s) ==
    /\ sevResult # "unset"
    /\ prevScore' = sevScore
    /\ prevResult' = sevResult
    /\ sevScore' = s
    /\ sevResult' = "unset"
    /\ UNCHANGED notSev

InitSeverity ==
    /\ InitUI /\ InitDb /\ InitScan /\ InitDownload /\ InitSize /\ InitUpload /\ InitMode
    /\ sevScore \in Scores
    /\ sevResult = "unset"
    /\ prevScore = sevScore
    /\ prevResult = "unset"

NextSeverity ==
    \/ classify
    \/ \E s \in Scores : nextScore(s)

SpecSeverity == InitSeverity /\ [][NextSeverity]_vars

-----------------------------------------------------------------------------
(* SQLiteDatabaseService *)

\* obj.key, undefined when the object has no such key
Field(obj, key) == IF key \in DOMAIN obj THEN Some(obj[key]) ELSE None

\* { ...a, ...b }: the keys of b override those of a
Spread(a, b) ==
    [k \in DOMAIN a \cup DOMAIN b |-> IF k \in DOMAIN b THEN b[k] ELSE a[k]]

UserDataInputs ==
    { [username |-> "alice", password |-> "pw"],
      [username |-> "bob", password |-> "pw", role |-> "admin"],
      [username |-> "carol", password |-> "pw", id |-> 1],
      [username |-> "dave", password |-> "pw", id |-> 7],
      [password |-> "pw"] }

\* INSERT INTO users (username, password): NOT NULL and UNIQUE(username)
insertAccepted(userData) ==
    /\ IsSome(Field(userData, "username"))
    /\ IsSome(Field(userData, "password"))
    /\ \A row \in users : row.username # userData.username

saveUser(userData) ==
    /\ Cardinality(users) < MaxUsers
    /\ saveInput' = Some(userData)
    /\ getResult' = None
    /\ IF insertAccepted(userData)
       THEN /\ users' = users \cup {[id |-> lastID + 1,
                                      username |-> userData.username,
                                      password |-> userData.password]}
            /\ lastID' = lastID + 1
            /\ saveResult' = Some(Spread([id |-> lastID + 1], userData))
       ELSE /\ saveResult' = None
            /\ UNCHANGED <<users, lastID>>
    /\ UNCHANGED notDb

\* SELECT id, username FROM users WHERE id = ?
selectUser(userId) ==
    LET rows == {row \in users : row.id = userId}
    IN  IF rows = {} THEN None
        ELSE LET row == CHOOSE r \in rows : TRUE
             IN  Some([id |-> row.id, username |-> row.username])

getUserById(userId) ==
    /\ getResult' = Some(selectUser(userId))
    /\ UNCHANGED <<users, lastID, saveInput, saveResult>>

\* the round trip: look up the id that saveUser resolved with
getSavedUser ==
    /\ saveResult # None
    /\ getResult = None
    /\ getUserById(Get(saveResult).id)
    /\ UNCHANGED notDb

NextDb ==
    \/ \E u \in UserDataInputs : saveUser(u)
    \/ getSavedUser

SpecDb == Init /\ [][NextDb]_vars

-----------------------------------------------------------------------------
(* Scan orchestrator, directory mode (section 4.5 of the specification) *)

\* what happens to a file when it is scanned: n alternate streams, or unreadable
FileOutcomes == {[denied |-> FALSE, streams |-> 0],
                 [denied |-> FALSE, streams |-> 2],
                 [denied |-> TRUE, streams |-> 0]}

ScanTargets ==
    [ status : {"ok", "missing", "unreadable"},
      files : UNION {[1..n -> FileOutcomes] : n \in 1..MaxFiles} ]

currentFile == scanTarget.files[scanIndex + 1]

\* the next file, or the end of the scan
advance ==
    /\ scanIndex' = scanIndex + 1
    /\ scanState' = IF scanIndex + 1 = Len(scanTarget.files)
                    THEN "Complete" ELSE "Enumerating"

\* Pending -> Enumerating; a missing or unreadable target is fatal
startScan ==
    /\ scanState = "Pending"
    /\ IF scanTarget.status = "ok"
       THEN /\ scanState' = "Enumerating"
            /\ UNCHANGED scanError
       ELSE /\ scanState' = "Failed"
            /\ scanError' = IF scanTarget.status = "missing"
                            THEN "TargetNotFound" ELSE "PermissionDenied"
    /\ UNCHANGED <<scanTarget, scanIndex, scanSummary, scanSkipped>>
    /\ UNCHANGED notScan

\* Enumerating a readable file -> Classifying
enumerateFile ==
    /\ scanState = "Enumerating"
    /\ ~currentFile.denied
    /\ scanState' = "Classifying"
    /\ UNCHANGED <<scanTarget, scanIndex, scanSummary, scanSkipped, scanError>>
    /\ UNCHANGED notScan

\* a per-file error aborts the whole scan
skipFile_aborts ==
    /\ scanState = "Enumerating"
    /\ currentFile.denied
    /\ scanState' = "Failed"
    /\ UNCHANGED <<scanTarget, scanIndex, scanSummary, scanSkipped, scanError>>
    /\ UNCHANGED notScan

\* per-file error: the file is recorded as skipped and counted, the scan goes on
skipFile ==
    /\ scanState = "Enumerating"
    /\ currentFile.denied
    /\ scanSkipped' = scanSkipped \cup {scanIndex + 1}
    /\ scanSummary' = [scanSummary EXCEPT
                          !.total_files_scanned = @ + 1]
    /\ advance
    /\ UNCHANGED <<scanTarget, scanError>>
    /\ UNCHANGED notScan

classifyFile ==
    /\ scanState = "Classifying"
    /\ scanState' = "Scoring"
    /\ UNCHANGED <<scanTarget, scanIndex, scanSummary, scanSkipped, scanError>>
    /\ UNCHANGED notScan

\* Scoring: the file's result is merged into the summary
scoreFile ==
    /\ scanState = "Scoring"
    /\ scanSummary' = [scanSummary EXCEPT
                          !.total_files_scanned = @ + 1,
                          !.files_with_ads =
                              IF currentFile.streams > 0 THEN @ + 1 ELSE @,
                          !.total_ads_streams = @ + currentFile.streams]
    /\ advance
    /\ UNCHANGED <<scanTarget, scanSkipped, scanError>>
    /\ UNCHANGED notScan

\* InternalFailure in any stage is fatal
internalFailure ==
    /\ scanState \in {"Pending", "Enumerating", "Classifying", "Scoring"}
    /\ scanState' = "Failed"
    /\ scanError' = "InternalFailure"
    /\ UNCHANGED <<scanTarget, scanIndex, scanSummary, scanSkipped>>
    /\ UNCHANGED notScan

InitScanDirectory ==
    /\ InitUI /\ InitSev /\ InitDb /\ InitDownload /\ InitSize /\ InitUpload /\ InitMode
    /\ scanTarget \in ScanTargets
    /\ scanState = "Pending"
    /\ scanIndex = 0
    /\ scanSummary = [total_files_scanned |-> 0, files_with_ads |-> 0,
                      total_ads_streams |-> 0]
    /\ scanSkipped = {}
    /\ scanError = "none"

NextScan ==
    \/ startScan
    \/ enumerateFile
    \/ skipFile
    \/ classifyFile
    \/ scoreFile
    \/ internalFailure

SpecScan == InitScanDirectory /\ [][NextScan]_vars

-----------------------------------------------------------------------------
(* Properties *)

SeverityRank(b) ==
    IF b = "Low" THEN 0 ELSE IF b = "Medium" THEN 1 ELSE IF b = "High" THEN 2 ELSE 3

\* C1: for every score in 0..100 calculateSeverity returns exactly one of the four
\* buckets, Critical iff score >= 80, High iff 60 <= score < 80, Medium iff
\* 30 <= score < 60, Low iff score < 30, and a larger score never gets a lower bucket.
C1_SeverityBuckets ==
    sevResult # "unset" =>
        /\ sevResult \in {"Low", "Medium", "High", "Critical"}
        /\ (sevResult = "Critical") <=> (sevScore >= 80)
        /\ (sevResult = "High") <=> (60 <= sevScore /\ sevScore < 80)
        /\ (sevResult = "Medium") <=> (30 <= sevScore /\ sevScore < 60)
        /\ (sevResult = "Low") <=> (sevScore < 30)
        /\ (prevResult # "unset" /\ prevScore <= sevScore)
              => SeverityRank(prevResult) <= SeverityRank(sevResult)

C1_Witness ==
    /\ prevScore = 79 /\ prevResult = "High"
    /\ sevScore = 80 /\ sevResult = "Critical"

\* C2: after a successful ADS response has been handled, recommendations has at
\* least one entry, and when ads_found is false analysisResults is empty.
C2_AlwaysARecommendation ==
    lastEvent \in {"found", "notfound"} =>
        /\ Len(recommendations) >= 1
        /\ (lastEvent = "notfound" => analysisResults = <<>>)

\* t is s without its leading and trailing blanks
IsTrimOf(t, s) ==
    /\ t = <<>> \/ (t[1] # " " /\ t[Len(t)] # " ")
    /\ \E i \in 0..Len(s) :
          /\ i + Len(t) <= Len(s)
          /\ SubSeq(s, i + 1, i + Len(t)) = t
          /\ \A j \in (1..i) \cup ((i + Len(t) + 1)..Len(s)) : s[j] = " "

\* C3: every request to /detect carries file_path, selected_detectors,
\* use_win32api and scan_directory, use_win32api is true iff "win32api" is in the
\* selected_detectors sent, and file_path is the trimmed analysisPath.
C3_DetectBodyHasFourFields ==
    (sent # None /\ Get(sent).url = DetectUrl) =>
        LET body == Get(sent).body
        IN  /\ DOMAIN body = {"file_path", "selected_detectors", "use_win32api",
                              "scan_directory"}
            /\ body.use_win32api <=> includes(body.selected_detectors, "win32api")
            /\ IsTrimOf(body.file_path, analysisPath)

\* decoding of a JSON array of strings
RECURSIVE JSONparseElements(_)
JSONparseElements(t) ==
    IF Len(t) < 3 THEN <<>>
    ELSE <<t[2]>> \o JSONparseElements(SubSeq(t, 5, Len(t)))

JSONparse(t) == JSONparseElements(SubSeq(t, 2, Len(t) - 1))

IsJSONArray(t) ==
    /\ Len(t) >= 2 /\ t[1] = "[" /\ t[Len(t)] = "]"
    /\ LET inner == SubSeq(t, 2, Len(t) - 1)
       IN  /\ inner = <<>> \/ Len(inner) % 4 = 3
           /\ \A i \in 1..Len(inner) :
                 /\ (i % 4 \in {1, 3}) => inner[i] = "\""
                 /\ (i % 4 = 0) => inner[i] = ","
                 /\ (i % 4 = 2) => inner[i] \notin {"\"", ",", "[", "]"}

\* C4: with a file selected, an accepted runAnalysis posts to /upload-and-detect a
\* form with exactly one "file" part holding the selected file and one "detectors"
\* field, the JSON encoding of a non-empty array: selectedADSMethods when
\* ads_detector is selected, otherwise selectedDetectors.
C4_FileGoesToUpload ==
    (sent # None /\ selectedFile # None) =>
        /\ Get(sent).url = UploadUrl
        /\ LET form == Get(sent).body
               expected == IF \E i \in 1..Len(selectedDetectors) :
                                  selectedDetectors[i] = "ads_detector"
                           THEN selectedADSMethods ELSE selectedDetectors
           IN  /\ Cardinality({i \in 1..Len(form) : form[i].name = "file"}) = 1
               /\ Cardinality({i \in 1..Len(form) : form[i].name = "detectors"}) = 1
               /\ Len(form) = 2
               /\ \A i \in 1..Len(form) :
                     /\ form[i].name = "file" => form[i].value = Get(selectedFile)
                     /\ form[i].name = "detectors" =>
                           /\ IsJSONArray(form[i].value)
                           /\ JSONparse(form[i].value) = expected
                           /\ expected # <<>>

\* a file is selected, another path was typed afterwards, the ADS detector is selected
C4_Witness ==
    /\ sent # None /\ selectedFile # None
    /\ analysisPath # Get(selectedFile).name
    /\ Get(sent).url = UploadUrl
    /\ selectedDetectors = <<"timestomp_detector", "ads_detector">>
    /\ selectedADSMethods = <<"powershell", "win32api">>

DisplayEmpty ==
    /\ analysisResults = <<>>
    /\ riskAssessment = None
    /\ recommendations = <<>>
    /\ summary = EmptySummary

\* C5 as stated: once the only request in flight has ended in failure, isLoading is
\* false and analysisResults, riskAssessment, recommendations and summary are empty.
C5_FailureLeavesDisplayEmpty ==
    (lastEvent \in {"failed", "error"} /\ inflight = {}) =>
        ~isLoading /\ DisplayEmpty

\* C5 (amended): when the only request in flight ends in failure, the handler sets
\* isLoading to false and changes nothing else; the four displayed fields keep their
\* values, and these are empty unless the answer to another request was displayed
\* after this request had been issued.
C5_FailureChangesOnlyIsLoading ==
    [][ (lastEvent' \in {"failed", "error"} /\ inflight # {} /\ inflight' = {}) =>
          /\ isLoading' = FALSE
          /\ UNCHANGED <<analysisResults, riskAssessment, recommendations, summary,
                         analysisPath, selectedDetectors, selectedADSMethods,
                         selectedFile, isScanningDirectory, issued, accepted>>
          /\ (displayedFrom = 0 => DisplayEmpty') ]_vars

\* a request that was alone in flight gets a failure body carrying stream data
C5_Witness ==
    /\ lastEvent = "failed"
    /\ inflight = {} /\ issued = 1
    /\ ~isLoading /\ DisplayEmpty

\* C6: no request is retried: the number of HTTP requests issued always equals the
\* number of accepted runAnalysis calls, and no response handler sends a request.
C6_NoRetry ==
    /\ issued = accepted
    /\ inflight \subseteq 1..issued
    /\ (lastEvent \in {"found", "notfound", "other", "failed", "error"} => sent = None)

C6_Witness ==
    /\ lastEvent = "error" /\ issued = 2 /\ accepted = 2 /\ inflight = {}

\* C7: a successful answer with ads_found = true and a non-empty streams list gives
\* analysisResults one entry per stream in the same order, with indicator = name,
\* confidence = risk_score and severity = calculateSeverity(risk_score).
C7_OneResultPerStream ==
    [][ lastEvent' = "found" =>
          \A id \in inflight \ inflight', r \in Responses :
            ( /\ r.success /\ IsSome(r.data)
              /\ Get(r.data).ads_found = Some(TRUE)
              /\ IsSome(Get(r.data).streams)
              /\ Len(Get(Get(r.data).streams)) > 0
              /\ subscribeNext(id, r) )
            => LET streams == Get(Get(r.data).streams)
               IN  /\ Len(analysisResults') = Len(streams)
                   /\ \A i \in 1..Len(streams) :
                         /\ analysisResults'[i].indicator = streams[i].name
                         /\ analysisResults'[i].confidence = streams[i].risk_score
                         /\ analysisResults'[i].severity =
                               calculateSeverity(streams[i].risk_score) ]_vars

C7_Witness ==
    /\ lastEvent = "found"
    /\ Len(analysisResults) = 2
    /\ analysisResults[1].indicator = ":secret.txt"
    /\ analysisResults[1].severity = "Critical"
    /\ analysisResults[2].indicator = ":payload.exe"
    /\ analysisResults[2].severity = "Medium"

\* C8: the value saveUser resolves with carries the row id assigned by the database,
\* and getUserById of that id resolves with the user who has userData.username.
C8_SaveGetRoundTrip ==
    /\ saveResult # None => Get(saveResult).id = lastID
    /\ (saveResult # None /\ getResult # None) =>
          /\ Get(getResult) # None
          /\ Get(Get(getResult)).username = Get(saveInput).username

\* C9: a directory scan in which a file fails with a per-file error does not enter
\* Failed: Failed is entered only on a fatal error, and a scan that is Complete has
\* total_files_scanned = N and files_with_ads = the number of successfully scanned
\* files that have alternate streams.
C9_PerFileErrorIsNotFatal ==
    LET files == scanTarget.files
    IN  /\ scanState = "Failed" =>
              scanError \in {"TargetNotFound", "PermissionDenied", "InternalFailure"}
        /\ scanError = "none" => scanState # "Failed"
        /\ scanState = "Complete" =>
              /\ scanSummary.total_files_scanned = Len(files)
              /\ scanSummary.files_with_ads =
                    Cardinality({i \in 1..Len(files) :
                                   ~files[i].denied /\ files[i].streams > 0})
        /\ scanSummary.total_files_scanned = scanIndex

\* the last of several files is unreadable, an earlier one has streams
C9_Witness ==
    /\ scanState = "Complete"
    /\ Len(scanTarget.files) >= 2
    /\ scanTarget.files[Len(scanTarget.files)].denied
    /\ \A i \in 1..(Len(scanTarget.files) - 1) : ~scanTarget.files[i].denied
    /\ scanSummary.files_with_ads >= 1
    /\ scanSummary.total_files_scanned = Len(scanTarget.files)

NonBlank(path) == \E i \in 1..Len(path) : path[i] # " "

ValidInputs ==
    /\ NonBlank(analysisPath) \/ selectedFile # None
    /\ selectedDetectors # <<>>
    /\ (\E i \in 1..Len(selectedDetectors) : selectedDetectors[i] = "ads_detector")
          => selectedADSMethods # <<>>

\* C10: runAnalysis issues a request only if (the path is non-blank or a file is
\* selected) and a detector is selected and (ads_detector is not selected or an ADS
\* method is selected); otherwise it issues none and leaves analysisResults,
\* riskAssessment, recommendations, summary and isLoading unchanged.
C10_ValidationGate ==
    [][ /\ issued' # issued => ValidInputs
        /\ runAnalysis =>
              IF ValidInputs
              THEN issued' = issued + 1 /\ sent' # None
              ELSE /\ lastEvent' = "rejected"
                   /\ sent' = None
                   /\ UNCHANGED <<issued, inflight, analysisResults, riskAssessment,
                                  recommendations, summary, isLoading>> ]_vars

\* a rejected run that leaves the results of the previous analysis on display
C10_Witness ==
    /\ lastEvent = "rejected"
    /\ Len(analysisResults) = 2
    /\ isADSSelected /\ selectedADSMethods = <<>>
    /\ NonBlank(analysisPath)

-----------------------------------------------------------------------------
(* Overlapping requests *)

\* C11: isLoading is true exactly while at least one request is in flight (sent and
\* not yet answered by a response or an error), also when runAnalysis was called
\* again before an earlier request completed.
C11_LoadingIffInFlight ==
    isLoading <=> (inflight # {})

\* C12: latest request wins. Once no request is in flight, what is displayed was
\* written by the answer to the most recently issued request, and a summary that
\* names a target names the file or path that request was sent for.
C12_LatestRequestWins ==
    (inflight = {} /\ displayedFrom # 0) =>
        /\ displayedFrom = issued
        /\ (summary.tmpl = "No ADS streams found in ${targetName}"
               => summary.target = lastTarget)

\* C13: after clearSelection the four displayed fields are empty and no step other
\* than a runAnalysis call makes them non-empty, whichever request completes.
C13_ClearedStaysCleared ==
    cleared => DisplayEmpty

-----------------------------------------------------------------------------
(* Selection *)

NoDuplicates(s) == \A i, j \in 1..Len(s) : s[i] = s[j] => i = j

DetectorValues == { availableDetectors[i].value : i \in 1..Len(availableDetectors) }

ADSMethodValues == {"powershell", "win32api", "pattern"}

\* C14: selectedDetectors has no duplicate and holds only values of
\* availableDetectors; selectedADSMethods has no duplicate and holds only
\* 'powershell', 'win32api' and 'pattern'.
C14_SelectionsAreSets ==
    /\ NoDuplicates(selectedDetectors)
    /\ \A i \in 1..Len(selectedDetectors) : selectedDetectors[i] \in DetectorValues
    /\ NoDuplicates(selectedADSMethods)
    /\ \A i \in 1..Len(selectedADSMethods) : selectedADSMethods[i] \in ADSMethodValues

\* everything selected at once, then the ADS detector unchecked and checked again
C14_Witness ==
    /\ Len(selectedDetectors) = 9
    /\ selectedDetectors[9] = "ads_detector"
    /\ selectedADSMethods = <<"powershell", "win32api", "pattern">>

\* C15: isAllSelected() is true iff every detector of availableDetectors is in
\* selectedDetectors, and isAllADSMethodsSelected() is true iff the three ADS
\* methods are all in selectedADSMethods.
C15_AllSelectedMeansAll ==
    /\ isAllSelected <=> \A v \in DetectorValues : includes(selectedDetectors, v)
    /\ isAllADSMethodsSelected <=>
          \A v \in ADSMethodValues : includes(selectedADSMethods, v)

\* both complete, in an order that only single check boxes can produce
C15_Witness ==
    /\ isAllSelected /\ selectedDetectors[9] = "stego_detector"
    /\ isAllADSMethodsSelected /\ selectedADSMethods[1] = "pattern"

\* C16: unchecking a detector removes exactly that value and keeps the others in
\* order; selectedADSMethods becomes empty when the detector unchecked is
\* 'ads_detector' and is unchanged when another detector is unchecked or any
\* detector is checked.
C16_DetectorChangeFrame ==
    [][ \A d \in SelectionDetectorInputs, c \in BOOLEAN :
          onDetectorChange(d, c) =>
            /\ ~c => /\ selectedDetectors' =
                           SelectSeq(selectedDetectors, LAMBDA v : v # d)
                     /\ selectedADSMethods' =
                           IF d = "ads_detector" THEN <<>> ELSE selectedADSMethods
            /\ c => selectedADSMethods' = selectedADSMethods ]_vars

\* the ADS detector was checked again after the others and no method came back
C16_Witness ==
    /\ selectedDetectors = <<"stego_detector", "timestomp_detector", "ads_detector">>
    /\ selectedADSMethods = <<>>

-----------------------------------------------------------------------------
(* Summary and report *)

\* C17: whenever summary is the 'Found N ADS streams' text written by
\* handleADSResponse, N is the number of entries of analysisResults.
C17_FoundCountMatchesResults ==
    summary.tmpl = "Found ${n} ADS streams" => summary.n = Len(analysisResults)

\* C18: generateReport downloads a report iff analysisResults is non-empty; the
\* report then has one finding per entry of analysisResults, numbered 1..n in the
\* same order; generateReport changes no component state, and with no results
\* (also after a scan that found no ADS) nothing is produced.
C18_ReportIffResults ==
    [][ /\ generateReport =>
             /\ UNCHANGED <<analysisPath, selectedDetectors, selectedADSMethods,
                            analysisResults, riskAssessment, recommendations, summary,
                            selectedFile, isLoading, isScanningDirectory>>
             /\ IF analysisResults # <<>>
                THEN /\ lastEvent' = "report"
                     /\ report' # None
                     /\ Get(report').total = Len(analysisResults)
                     /\ LET findings == Get(report').findings
                        IN  /\ Len(findings) = Len(analysisResults)
                            /\ \A i \in 1..Len(findings) :
                                  /\ findings[i].number = i
                                  /\ findings[i].indicator = analysisResults[i].indicator
                                  /\ findings[i].severity = analysisResults[i].severity
                                  /\ findings[i].confidence =
                                        analysisResults[i].confidence
                ELSE /\ lastEvent' = "noreport"
                     /\ report' = report
        /\ report' # report => analysisResults # <<>> /\ lastEvent' = "report"
        /\ lastEvent' = "noreport" => analysisResults = <<>> /\ report' = report
      ]_vars

\* a report of two findings was downloaded; a later scan found no ADS and
\* generateReport then produced nothing
C18_Witness ==
    /\ lastEvent = "noreport"
    /\ analysisResults = <<>>
    /\ summary.tmpl = "No ADS streams found in ${targetName}"
    /\ report # None
    /\ Len(Get(report).findings) = 2
    /\ Get(report).findings[2].indicator = ":payload.exe"

HasSeparator(path) == \E i \in 1..Len(path) : path[i] \in {"/", "\\"}

\* C19: for every request analyzePath makes, scan_directory in the request and
\* isScanningDirectory in the component are equal, and they are true iff
\* analysisPath contains at least one '/' or '\' character.
C19_DirectoryModeFromPathText ==
    (sent # None /\ Get(sent).url = DetectUrl) =>
        /\ Get(sent).body.scan_directory = isScanningDirectory
        /\ isScanningDirectory <=> HasSeparator(analysisPath)

\* a second request, for a path with a backslash inside, made while the first is in flight
C19_Witness ==
    /\ sent # None /\ Get(sent).url = DetectUrl
    /\ analysisPath = <<"d", "\\", "f">>
    /\ Get(sent).body.scan_directory /\ isScanningDirectory
    /\ Get(sent).id = 2 /\ 1 \in inflight

-----------------------------------------------------------------------------
(* Sizes *)

\* C20: for every byte count below 2^64, formatSize returns a string ending in one
\* of B, KB, MB, GB and FileSizePipe.transform one ending in one of Bytes, KB, MB,
\* GB, TB (the unit index stays inside the table); 0 gives '0 B' and '0 Bytes'.
C20_SizeUnitInTable ==
    /\ formatSizeResult # None =>
          /\ Get(formatSizeResult).unit \in {Some("B"), Some("KB"), Some("MB"), Some("GB")}
          /\ sizeBytes = <<0>> =>
                Get(formatSizeResult) =
                    [number |-> [whole |-> 0, hundredths |-> 0], unit |-> Some("B")]
    /\ transformResult # None =>
          /\ Get(transformResult).unit \in
                {Some("Bytes"), Some("KB"), Some("MB"), Some("GB"), Some("TB")}
          /\ sizeBytes = <<0>> =>
                Get(transformResult) =
                    [number |-> [whole |-> 0, hundredths |-> 0], unit |-> Some("Bytes")]

-----------------------------------------------------------------------------
(* Evidence upload *)

IsHex10(s) ==
    /\ Len(s) = 10
    /\ \A i \in 1..Len(s) : \E d \in 1..16 : s[i] = HexDigits[d]

\* the name whose rolling hash is exactly -2^31
MinIntName == <<2324, 39, 60, 40, 95>>

\* C21: the hash of every uploaded file, whatever its name (the empty one and the
\* ones whose 32-bit rolling hash wraps to a negative value or to -2^31 included),
\* is exactly 10 lowercase hexadecimal digits, and two files with the same name
\* have the same hash whatever their type, size and date.
C21_HashIsTenHexDigitsOfName ==
    /\ \A i \in 1..Len(metadata) : IsHex10(metadata[i].hash)
    /\ \A i, j \in 1..Len(metadata) :
          metadata[i].fileName = metadata[j].fileName =>
              metadata[i].hash = metadata[j].hash

\* two files of different size and type, both with the name that hashes to -2^31,
\* have been uploaded
C21_Witness ==
    /\ Len(metadata) = 2
    /\ metadata[1].fileName = MinIntName /\ metadata[2].fileName = MinIntName
    /\ metadata[1].size # metadata[2].size
    /\ metadata[1].fileType # metadata[2].fileType
    /\ rollingHash(MinIntName, 0, Int32(0, 0)) = Int32(32768, 0)
    /\ metadata[1].hash = <<"0", "0", "8", "0", "0", "0", "0", "0", "0", "0">>

====
